---- MODULE Spec2Model ----
(***************************************************************************)
(* Activity tracking and session start-up of the mautrix-whatsapp bridge.  *)
(*                                                                         *)
(*   database/puppet.go : Puppet.UpdateActivityTs, Puppet.Scan             *)
(*   main.go            : WABridge.UpdateActivePuppetCount,                *)
(*                        WABridge.StartUsers                              *)
(*                                                                         *)
(* Spec       calls of UpdateActivityTs on the puppets, one after another. *)
(* CountSpec  the same calls, from event callbacks, beside the task that   *)
(*            recomputes the activity snapshot from the puppet table.      *)
(* StartSpec  StartUsers with the Connect and custom puppet tasks it       *)
(*            starts; FairStart adds the fairness of the Go scheduler.     *)
(***************************************************************************)
EXTENDS Integers, Sequences, FiniteSets, TLC

\* ------------------------------------------------------------------ bounds

\* Timestamps are 0, 1 and the seconds 0..MaxOff after one inactivity window.
MaxOff == 1
\* At most this many of the UPDATE statements fail in one behaviour.
MaxFailedWrites == 1
\* GetAllUsers returns at most this many users.
MaxUsers == 3

\* --------------------------------------------------------------- constants

ONE_DAY_S == 86400

Puppets == {"p1", "p2"}

\* Limits of the configuration (config.Limits).
MinPuppetActiveDays == 0
PuppetInactivityDays == 1
MaxPuppetLimit == 1

\* The timestamps delivered to UpdateActivityTs: spans of 0 and 1 second, and of
\* one second less than, exactly, and more than the inactivity window.
TsValues == {0, 1} \cup {ONE_DAY_S * PuppetInactivityDays + e : e \in 0..MaxOff}
\* time.Now().Unix() as the scan reads it: one inactivity window after a timestamp.
NowValues == {t + ONE_DAY_S * PuppetInactivityDays : t \in TsValues}

\* sql.NullInt64: {Int64, Valid}; a NULL column scans as Int64 = 0, Valid = FALSE.
NullInt64 == [Int64 |-> 0, Valid |-> FALSE]
SomeInt64(v) == [Int64 |-> v, Valid |-> TRUE]

VARIABLES
  puppet,            \* in memory: [Puppets -> [FirstActivityTs, LastActivityTs]]
  db,                \* the puppet table: [Puppets -> [first_activity_ts, last_activity_ts]]
  failedWrites,      \* how many UPDATE statements have failed so far
  call,              \* history: the latest UpdateActivityTs call and the UPDATEs it executed
  recorded,          \* history: puppets on which some call has passed the early return
  maxDelivered,      \* history: per puppet, the largest of its initial LastActivityTs
                     \*          and the timestamps delivered to it
  BlockOnLimitReached, \* config.Limits.BlockOnLimitReached
  currentUserCount,  \* PuppetActivity.currentUserCount
  isBlocked,         \* PuppetActivity.isBlocked
  pc,                \* position of the UpdateActivePuppetCount task
  activePuppetCount, \* its local counter
  readErr,           \* history: whether a read of this run failed (query, rows.Next, rows.Scan)
  documented,        \* history: how many rows of this run's result set meet the documented
                     \*          condition for an active puppet
  prevSnapshot,      \* history: <<currentUserCount, isBlocked>> when this run began
  allUsers,          \* br.GetAllUsers(): a sequence of [JID, handshake]
  startPc,           \* position of the StartUsers task
  nextUser,          \* index of its loop over allUsers
  nextPuppet,        \* index of its loop over the custom puppets
  foundAnySessions,  \* its local flag
  unconfiguredSent,  \* how many times the global Unconfigured state was sent
  connectTask,       \* per user, the `go user.Connect()` task
  session,           \* per user, the state of the session
  puppetTask,        \* per custom puppet, the task that starts it
  cbPc,              \* per event callback, its position in UpdateActivityTs
  cbTs,              \* per event callback, the activityTs of its call
  insPc,             \* position of the task that inserts a puppet and gets it back
  subject,           \* the *Puppet that is inserted
  table,             \* the rows of the puppet table
  insertErr,         \* whether Insert returned an error
  execs,             \* how many statements Insert executed
  found,             \* what Get returned: <<>> for nil, or <<the puppet>>
  usersByUsername,   \* br.usersByUsername: the users (indices of allUsers) in the map
  usersLock,         \* br.usersLock: "free", or the task that holds it
  loopPc,            \* position of the Loop task
  warnLeft,          \* users the range of WarnUsersAboutDisconnection has yet to visit
  ticks,             \* how many cycles of Loop have begun
  offlineWarningTasks, \* per user, `go user.sendPhoneOfflineWarning()` tasks not yet run
  warningsSent,      \* per user, phone-offline warnings sent
  phoneSeen,         \* per user, the result of PhoneRecentlySeen
  stopPc,            \* position of Stop: "none" before the call
  stopLeft,          \* users the range of Stop has yet to visit
  disconnects,       \* per user, how often Stop disconnected the client and closed
                     \*           historySyncs
  loginPc            \* position of a task that adds a user to usersByUsername

activityVars == <<puppet, db, failedWrites>>
historyVars == <<call, recorded, maxDelivered>>
countVars == <<BlockOnLimitReached, currentUserCount, isBlocked, pc,
               activePuppetCount, readErr, documented, prevSnapshot>>
startVars == <<allUsers, startPc, nextUser, nextPuppet, foundAnySessions,
               unconfiguredSent, connectTask, session, puppetTask>>
concVars == <<cbPc, cbTs>>
insertVars == <<insPc, subject, table, insertErr, execs, found>>
loopVars == <<loopPc, warnLeft, ticks, offlineWarningTasks, warningsSent, phoneSeen>>
stopVars == <<stopPc, stopLeft, disconnects>>
lifeVars == <<usersByUsername, usersLock, loginPc, loopVars, stopVars>>
extraVars == <<concVars, insertVars, lifeVars>>
vars == <<activityVars, historyVars, countVars, startVars, extraVars>>

\* ------------------------------------------------------- Puppet (puppet.go)

\* newPuppet: both timestamps are zero; Insert leaves both columns NULL.
newPuppet == [FirstActivityTs |-> 0, LastActivityTs |-> 0]
newRow == [first_activity_ts |-> NullInt64, last_activity_ts |-> NullInt64]

\* The early return of UpdateActivityTs: `if puppet.LastActivityTs > activityTs`.
\* (Variants with the test dropped, and off by one.)
MutSkipNever(last, activityTs) == FALSE
MutSkipWellBelow(last, activityTs) == last > activityTs + 1
SkipUpdate(last, activityTs) == last > activityTs

\* `if puppet.FirstActivityTs == 0`: zero means "not set yet".
FirstUnset(first) == first = 0

\* UPDATE puppet SET last_activity_ts=$1 WHERE username=$2
ExecSetLast(row, v, ok) ==
  IF ok THEN [row EXCEPT !.last_activity_ts = SomeInt64(v)] ELSE row

\* UPDATE puppet SET first_activity_ts=$1 WHERE username=$2 AND first_activity_ts is NULL
ExecSetFirst(row, v, ok) ==
  IF ok /\ ~row.first_activity_ts.Valid
  THEN [row EXCEPT !.first_activity_ts = SomeInt64(v)]
  ELSE row

\* The UPDATE statements a call executes, in order.
Statements(p, activityTs) ==
  IF SkipUpdate(puppet[p].LastActivityTs, activityTs) THEN {}
  ELSE {"last_activity_ts"} \cup
       (IF FirstUnset(puppet[p].FirstActivityTs) THEN {"first_activity_ts"} ELSE {})

\* (Variant of the body below that returns when the UPDATE of last_activity_ts
\* fails.)
MutReturnsOnError(p, activityTs, okLast, okFirst) ==
  LET skip == puppet[p].LastActivityTs > activityTs
      setFirst == ~skip /\ okLast /\ puppet[p].FirstActivityTs = 0
      failing == (IF ~skip /\ ~okLast THEN 1 ELSE 0)
               + (IF setFirst /\ ~okFirst THEN 1 ELSE 0)
  IN
  /\ skip => okLast
  /\ ~setFirst => okFirst
  /\ failedWrites + failing <= MaxFailedWrites
  /\ IF skip THEN UNCHANGED <<puppet, db>>
     ELSE /\ puppet' = [puppet EXCEPT ![p] =
                          [LastActivityTs |-> activityTs,
                           FirstActivityTs |-> IF setFirst THEN activityTs
                                               ELSE puppet[p].FirstActivityTs]]
          /\ db' = [db EXCEPT ![p] =
                      IF ~okLast THEN db[p]
                      ELSE IF setFirst
                           THEN ExecSetFirst(ExecSetLast(db[p], activityTs, TRUE),
                                             activityTs, okFirst)
                           ELSE ExecSetLast(db[p], activityTs, TRUE)]
  /\ failedWrites' = failedWrites + failing

\* The body of puppet.UpdateActivityTs(ctx, activityTs) on the puppet's fields and
\* its row; okLast and okFirst tell whether the two Exec calls succeed (a failure
\* is only logged).
ActivityTsEffect(p, activityTs, okLast, okFirst) ==
  LET stmts == Statements(p, activityTs)
      failing == (IF "last_activity_ts" \in stmts /\ ~okLast THEN 1 ELSE 0)
               + (IF "first_activity_ts" \in stmts /\ ~okFirst THEN 1 ELSE 0)
  IN
  \* A statement that is not executed cannot fail.
  /\ "last_activity_ts" \notin stmts => okLast
  /\ "first_activity_ts" \notin stmts => okFirst
  /\ failedWrites + failing <= MaxFailedWrites
  /\ IF SkipUpdate(puppet[p].LastActivityTs, activityTs)
     THEN UNCHANGED <<puppet, db>>
     ELSE LET setFirst == FirstUnset(puppet[p].FirstActivityTs)
              afterLast == ExecSetLast(db[p], activityTs, okLast)
              afterFirst == IF setFirst
                            THEN ExecSetFirst(afterLast, activityTs, okFirst)
                            ELSE afterLast
          IN /\ puppet' = [puppet EXCEPT ![p] =
                            [LastActivityTs |-> activityTs,
                             FirstActivityTs |-> IF setFirst THEN activityTs
                                                 ELSE puppet[p].FirstActivityTs]]
             /\ db' = [db EXCEPT ![p] = afterFirst]
  /\ failedWrites' = failedWrites + failing

Max(a, b) == IF a >= b THEN a ELSE b

\* One call of UpdateActivityTs, with its history.
UpdateActivityTs(p, activityTs, okLast, okFirst) ==
  /\ ActivityTsEffect(p, activityTs, okLast, okFirst)
  /\ call' = [p |-> p, activityTs |-> activityTs,
              issued |-> Statements(p, activityTs)]
  /\ recorded' = IF Statements(p, activityTs) = {} THEN recorded
                 ELSE recorded \cup {p}
  /\ maxDelivered' = [maxDelivered EXCEPT ![p] = Max(@, activityTs)]
  /\ UNCHANGED <<countVars, startVars, extraVars>>

\* Puppet.Scan, as far as the activity timestamps go: a NULL column gives 0.
ScanActivity(row) ==
  [FirstActivityTs |-> row.first_activity_ts.Int64,
   LastActivityTs |-> row.last_activity_ts.Int64]

\* The puppet is loaded again from its row (Get, after a restart of the bridge).
Reload(p) ==
  /\ puppet' = [puppet EXCEPT ![p] = ScanActivity(db[p])]
  /\ UNCHANGED <<db, failedWrites, historyVars, countVars, startVars, extraVars>>

\* The same call made by an event callback beside the counting task.
EventCallback ==
  \E p \in Puppets, activityTs \in TsValues, okLast, okFirst \in BOOLEAN :
    /\ ActivityTsEffect(p, activityTs, okLast, okFirst)
    /\ UNCHANGED <<historyVars, countVars, startVars, extraVars>>

\* ----------------------------------- UpdateActivePuppetCount (main.go)

minActivityTime == ONE_DAY_S * MinPuppetActiveDays
maxActivityTime == ONE_DAY_S * PuppetInactivityDays

\* The condition of the scan loop on one row's timestamps. (Variant: `>=` for
\* the minimum.)
MutActiveLoose(firstActivityTs, lastActivityTs, now) ==
  LET secondsOfActivity == lastActivityTs - firstActivityTs
      isInactive == now - lastActivityTs > maxActivityTime
  IN ~isInactive /\ secondsOfActivity >= minActivityTime
                 /\ secondsOfActivity < maxActivityTime
IsActive(firstActivityTs, lastActivityTs, now) ==
  LET secondsOfActivity == lastActivityTs - firstActivityTs
      isInactive == now - lastActivityTs > maxActivityTime
  IN ~isInactive /\ secondsOfActivity > minActivityTime
                 /\ secondsOfActivity < maxActivityTime

\* `mh.Config.Limits.MaxPuppetLimit < activePuppetCount` (variant: `<=`)
MutBlockedAtLimit(count) == MaxPuppetLimit <= count
Blocked(count) == MaxPuppetLimit < count

\* rows.Scan(&firstActivityTs, &lastActivityTs) on one row: the columns are
\* converted in order, and a NULL stops the conversion with an error that the
\* loop ignores, so last_activity_ts NULL leaves lastActivityTs as it was.
RowScan(row, firstActivityTs, lastActivityTs) ==
  [firstActivityTs |-> row.first_activity_ts.Int64,
   lastActivityTs |-> IF row.last_activity_ts.Valid
                      THEN row.last_activity_ts.Int64 ELSE lastActivityTs,
   err |-> ~row.last_activity_ts.Valid]

\* The loop `for rows.Next() { ... }` over the first n rows of the result set rs,
\* from row i on, with the loop's variables (declared outside it) carried along.
RECURSIVE ScanLoop(_, _, _, _, _)
ScanLoop(rs, i, n, now, st) ==
  IF i > n THEN st
  ELSE LET r == RowScan(rs[i], st.firstActivityTs, st.lastActivityTs)
       IN ScanLoop(rs, i + 1, n, now,
            [firstActivityTs |-> r.firstActivityTs,
             lastActivityTs |-> r.lastActivityTs,
             count |-> IF IsActive(r.firstActivityTs, r.lastActivityTs, now)
                       THEN st.count + 1 ELSE st.count,
             err |-> st.err \/ r.err])

\* SELECT first_activity_ts, last_activity_ts FROM puppet WHERE first_activity_ts is not NULL
Selected == {p \in Puppets : db[p].first_activity_ts.Valid}

\* The orders in which the query may return the selected rows.
Orders(S) == {f \in [1..Cardinality(S) -> S] : \A p \in S : \E i \in DOMAIN f : f[i] = p}

\* The documented condition on a row (section 4.2 of the design): not inactive,
\* and active for strictly more than the minimum and strictly less than the window.
DocumentedActive(row, now) ==
  /\ row.first_activity_ts.Valid
  /\ row.last_activity_ts.Valid
  /\ now - row.last_activity_ts.Int64 <= PuppetInactivityDays * 86400
  /\ MinPuppetActiveDays * 86400 < row.last_activity_ts.Int64 - row.first_activity_ts.Int64
  /\ row.last_activity_ts.Int64 - row.first_activity_ts.Int64 < PuppetInactivityDays * 86400

\* The query fails: only a warning is logged.
QueryFails ==
  /\ pc = "idle"
  /\ pc' = "failed"
  /\ readErr' = TRUE
  /\ prevSnapshot' = <<currentUserCount, isBlocked>>
  /\ UNCHANGED <<BlockOnLimitReached, currentUserCount, isBlocked,
                 activePuppetCount, documented>>
  /\ UNCHANGED <<activityVars, historyVars, startVars, extraVars>>

\* The query succeeds and the loop runs; rows.Next() returns false after n rows:
\* at the end of the result set, or earlier on an error that nothing checks.
QueryAndScan ==
  /\ pc = "idle"
  /\ \E order \in Orders(Selected), now \in NowValues :
       \E n \in 0..Len(order) :
         LET rs == [i \in 1..Len(order) |-> db[order[i]]]
             st == ScanLoop(rs, 1, n, now,
                     [firstActivityTs |-> 0, lastActivityTs |-> 0,
                      count |-> 0, err |-> FALSE])
         IN /\ activePuppetCount' = st.count
            /\ readErr' = (st.err \/ n < Len(order))
            /\ documented' = Cardinality({i \in 1..Len(rs) : DocumentedActive(rs[i], now)})
  /\ prevSnapshot' = <<currentUserCount, isBlocked>>
  /\ pc' = "scanned"
  /\ UNCHANGED <<BlockOnLimitReached, currentUserCount, isBlocked>>
  /\ UNCHANGED <<activityVars, historyVars, startVars, extraVars>>

\* `if BlockOnLimitReached { PuppetActivity.isBlocked = MaxPuppetLimit < activePuppetCount }`
SetBlocked ==
  /\ pc = "scanned"
  /\ isBlocked' = IF BlockOnLimitReached THEN Blocked(activePuppetCount)
                  ELSE isBlocked
  /\ pc' = "blockedSet"
  /\ UNCHANGED <<BlockOnLimitReached, currentUserCount, activePuppetCount,
                 readErr, documented, prevSnapshot>>
  /\ UNCHANGED <<activityVars, historyVars, startVars, extraVars>>

\* `mh.PuppetActivity.currentUserCount = activePuppetCount`
SetCount ==
  /\ pc = "blockedSet"
  /\ currentUserCount' = activePuppetCount
  /\ pc' = "done"
  /\ UNCHANGED <<BlockOnLimitReached, isBlocked, activePuppetCount,
                 readErr, documented, prevSnapshot>>
  /\ UNCHANGED <<activityVars, historyVars, startVars, extraVars>>

\* UpdateActivePuppetCount returns; the next run starts from scratch.
Return ==
  /\ pc \in {"failed", "done"}
  /\ pc' = "idle"
  /\ activePuppetCount' = 0
  /\ readErr' = FALSE
  /\ documented' = 0
  /\ prevSnapshot' = <<currentUserCount, isBlocked>>
  /\ UNCHANGED <<BlockOnLimitReached, currentUserCount, isBlocked>>
  /\ UNCHANGED <<activityVars, historyVars, startVars, extraVars>>

UpdateActivePuppetCount == QueryFails \/ QueryAndScan \/ SetBlocked \/ SetCount \/ Return

\* ------------------------------------------------- StartUsers (main.go)

\* A remote identifier, and the users GetAllUsers may return: one without a
\* remote identifier, and one whose handshake succeeds, fails, or never returns.
SomeJID == "4915112345678@s.whatsapp.net"
UserKinds ==
  {[JID |-> "", handshake |-> "none"]} \cup
  {[JID |-> SomeJID, handshake |-> h] : h \in {"ok", "fail", "hang"}}

\* br.GetAllPuppetsWithCustomMXID()
AllPuppetsWithCustomMXID == <<"c1", "c2">>
CustomPuppets == {AllPuppetsWithCustomMXID[j] : j \in DOMAIN AllPuppetsWithCustomMXID}

\* user.JID.IsEmpty()
IsEmpty(jid) == jid = ""

startFrame == <<activityVars, historyVars, countVars, extraVars>>

\* One pass of `for _, user := range br.GetAllUsers()`: the flag is set for a
\* user with a JID, and Connect is started in a task of its own for every user.
\* (Variants: Connect inside the `if`; the flag set for any user; Connect called
\* without `go`, so that the loop goes on when Connect has returned.)
MutLoopConnectsWithJID ==
  /\ startPc = "users"
  /\ nextUser <= Len(allUsers)
  /\ foundAnySessions' = (foundAnySessions \/ ~IsEmpty(allUsers[nextUser].JID))
  /\ connectTask' = IF ~IsEmpty(allUsers[nextUser].JID)
                    THEN [connectTask EXCEPT ![nextUser] = "spawned"]
                    ELSE connectTask
  /\ nextUser' = nextUser + 1
  /\ UNCHANGED <<allUsers, startPc, nextPuppet, unconfiguredSent, session, puppetTask>>
  /\ UNCHANGED startFrame
MutLoopFoundAnyUser ==
  /\ startPc = "users"
  /\ nextUser <= Len(allUsers)
  /\ foundAnySessions' = TRUE
  /\ connectTask' = [connectTask EXCEPT ![nextUser] = "spawned"]
  /\ nextUser' = nextUser + 1
  /\ UNCHANGED <<allUsers, startPc, nextPuppet, unconfiguredSent, session, puppetTask>>
  /\ UNCHANGED startFrame
MutLoopCallsConnect ==
  /\ startPc = "users"
  /\ nextUser <= Len(allUsers)
  /\ nextUser > 1 => connectTask[nextUser - 1] = "returned"
  /\ foundAnySessions' = (foundAnySessions \/ ~IsEmpty(allUsers[nextUser].JID))
  /\ connectTask' = [connectTask EXCEPT ![nextUser] = "spawned"]
  /\ nextUser' = nextUser + 1
  /\ UNCHANGED <<allUsers, startPc, nextPuppet, unconfiguredSent, session, puppetTask>>
  /\ UNCHANGED startFrame
StartUsersLoop ==
  /\ startPc = "users"
  /\ nextUser <= Len(allUsers)
  /\ foundAnySessions' = (foundAnySessions \/ ~IsEmpty(allUsers[nextUser].JID))
  /\ connectTask' = [connectTask EXCEPT ![nextUser] = "spawned"]
  /\ nextUser' = nextUser + 1
  /\ UNCHANGED <<allUsers, startPc, nextPuppet, unconfiguredSent, session, puppetTask>>
  /\ UNCHANGED startFrame

\* After the loop: `if !foundAnySessions { br.SendGlobalBridgeState(Unconfigured) }`.
StartUsersGlobalState ==
  /\ startPc = "users"
  /\ nextUser > Len(allUsers)
  /\ unconfiguredSent' = IF ~foundAnySessions THEN unconfiguredSent + 1
                         ELSE unconfiguredSent
  /\ startPc' = "puppets"
  /\ UNCHANGED <<allUsers, nextUser, nextPuppet, foundAnySessions, connectTask,
                 session, puppetTask>>
  /\ UNCHANGED startFrame

\* One pass of `for _, loopuppet := range br.GetAllPuppetsWithCustomMXID()`:
\* a task is started for the puppet.
StartUsersPuppets ==
  /\ startPc = "puppets"
  /\ nextPuppet <= Len(AllPuppetsWithCustomMXID)
  /\ puppetTask' = [puppetTask EXCEPT ![AllPuppetsWithCustomMXID[nextPuppet]] = "spawned"]
  /\ nextPuppet' = nextPuppet + 1
  /\ UNCHANGED <<allUsers, startPc, nextUser, foundAnySessions, unconfiguredSent,
                 connectTask, session>>
  /\ UNCHANGED startFrame

StartUsersReturn ==
  /\ startPc = "puppets"
  /\ nextPuppet > Len(AllPuppetsWithCustomMXID)
  /\ startPc' = "done"
  /\ UNCHANGED <<allUsers, nextUser, nextPuppet, foundAnySessions, unconfiguredSent,
                 connectTask, session, puppetTask>>
  /\ UNCHANGED startFrame

StartUsers ==
  StartUsersLoop \/ StartUsersGlobalState \/ StartUsersPuppets \/ StartUsersReturn

\* user.Connect() begins: without a remote identifier it returns at once and the
\* session stays Unconfigured; with one the session is Connecting.
ConnectBegin(i) ==
  /\ i \in DOMAIN connectTask
  /\ connectTask[i] = "spawned"
  /\ IF IsEmpty(allUsers[i].JID)
     THEN /\ connectTask' = [connectTask EXCEPT ![i] = "returned"]
          /\ UNCHANGED session
     ELSE /\ connectTask' = [connectTask EXCEPT ![i] = "connecting"]
          /\ session' = [session EXCEPT ![i] = "Connecting"]
  /\ UNCHANGED <<allUsers, startPc, nextUser, nextPuppet, foundAnySessions,
                 unconfiguredSent, puppetTask>>
  /\ UNCHANGED startFrame

\* The handshake ends: Connected, or Disconnected with the error logged. A
\* handshake that never returns leaves the task where it is.
ConnectEnd(i) ==
  /\ i \in DOMAIN connectTask
  /\ connectTask[i] = "connecting"
  /\ allUsers[i].handshake \in {"ok", "fail"}
  /\ session' = [session EXCEPT ![i] =
                   IF allUsers[i].handshake = "ok" THEN "Connected" ELSE "Disconnected"]
  /\ connectTask' = [connectTask EXCEPT ![i] = "returned"]
  /\ UNCHANGED <<allUsers, startPc, nextUser, nextPuppet, foundAnySessions,
                 unconfiguredSent, puppetTask>>
  /\ UNCHANGED startFrame

Connect(i) == ConnectBegin(i) \/ ConnectEnd(i)

\* The task of one custom puppet: puppet.StartCustomMXID(true) returns nil, or
\* an error that is logged.
StartCustomMXID(c) ==
  /\ puppetTask[c] = "spawned"
  /\ \E ok \in BOOLEAN :
       puppetTask' = [puppetTask EXCEPT ![c] = IF ok THEN "started" ELSE "failed"]
  /\ UNCHANGED <<allUsers, startPc, nextUser, nextPuppet, foundAnySessions,
                 unconfiguredSent, connectTask, session>>
  /\ UNCHANGED startFrame

\* ------------------------------------- Loop and Stop (main.go)

MaxCycles == 2
MaxLoopUsers == 2

lifeFrame == <<activityVars, historyVars, countVars, concVars, insertVars>>
startButSession == <<allUsers, startPc, nextUser, nextPuppet, foundAnySessions,
                     unconfiguredSent, connectTask, puppetTask>>

\* user.IsConnected(), and `user.Client == nil` negated: Connect creates the
\* client when it begins the session.
IsConnected(i) == session[i] = "Connected"
HasClient(i) == session[i] # "Unconfigured"

\* user.PhoneRecentlySeen(true)
PhoneRecentlySeen(i) == phoneSeen[i]

\* Loop: br.SleepAndDeleteUpcoming(), the housekeeping of one cycle.
LoopHousekeeping ==
  /\ loopPc = "housekeeping"
  /\ ticks < MaxCycles
  /\ ticks' = ticks + 1
  /\ loopPc' = "sleep"
  /\ UNCHANGED <<warnLeft, offlineWarningTasks, warningsSent, phoneSeen,
                 usersByUsername, usersLock, loginPc, stopVars, startVars, lifeFrame>>

\* Loop: time.Sleep(1 * time.Hour)
LoopSleep ==
  /\ loopPc = "sleep"
  /\ loopPc' = "lock"
  /\ UNCHANGED <<warnLeft, ticks, offlineWarningTasks, warningsSent, phoneSeen,
                 usersByUsername, usersLock, loginPc, stopVars, startVars, lifeFrame>>

\* WarnUsersAboutDisconnection: br.usersLock.Lock(), and the range begins.
WarnLock ==
  /\ loopPc = "lock"
  /\ usersLock = "free"
  /\ usersLock' = "Loop"
  /\ warnLeft' = usersByUsername
  /\ loopPc' = "range"
  /\ UNCHANGED <<ticks, offlineWarningTasks, warningsSent, phoneSeen,
                 usersByUsername, loginPc, stopVars, startVars, lifeFrame>>

\* One pass of its range: `go user.sendPhoneOfflineWarning()` for a connected
\* user whose phone was not seen recently.
ShouldWarn(i) == IsConnected(i) /\ ~PhoneRecentlySeen(i)

WarnVisit(i) ==
  /\ loopPc = "range"
  /\ i \in warnLeft
  /\ warnLeft' = warnLeft \ {i}
  /\ offlineWarningTasks' =
       IF ShouldWarn(i)
       THEN [offlineWarningTasks EXCEPT ![i] = offlineWarningTasks[i] + 1]
       ELSE offlineWarningTasks
  /\ UNCHANGED <<loopPc, ticks, warningsSent, phoneSeen, usersByUsername, usersLock,
                 loginPc, stopVars, startVars, lifeFrame>>

\* The range is over: br.usersLock.Unlock(), and Loop begins its next cycle.
WarnUnlock ==
  /\ loopPc = "range"
  /\ warnLeft = {}
  /\ usersLock' = "free"
  /\ loopPc' = "housekeeping"
  /\ UNCHANGED <<warnLeft, ticks, offlineWarningTasks, warningsSent, phoneSeen,
                 usersByUsername, loginPc, stopVars, startVars, lifeFrame>>

WarnUsersAboutDisconnection == WarnLock \/ (\E i \in 1..MaxUsers : WarnVisit(i)) \/ WarnUnlock

Loop == LoopHousekeeping \/ LoopSleep \/ WarnUsersAboutDisconnection

\* user.sendPhoneOfflineWarning(), in its own task: the warning is sent unless
\* one was sent already while the phone has been away.
\* (Variant that always sends.)
MutNeverWarned(sent) == FALSE
AlreadyWarned(sent) == sent > 0

sendPhoneOfflineWarning(i) ==
  /\ i \in DOMAIN offlineWarningTasks
  /\ offlineWarningTasks[i] > 0
  /\ offlineWarningTasks' = [offlineWarningTasks EXCEPT ![i] = offlineWarningTasks[i] - 1]
  /\ warningsSent' = IF AlreadyWarned(warningsSent[i]) THEN warningsSent
                     ELSE [warningsSent EXCEPT ![i] = warningsSent[i] + 1]
  /\ UNCHANGED <<loopPc, warnLeft, ticks, phoneSeen, usersByUsername, usersLock,
                 loginPc, stopVars, startVars, lifeFrame>>

\* Stop: br.Metrics.Stop(), and the range over br.usersByUsername begins; the
\* lock is not taken.
StopBegin ==
  /\ stopPc = "none"
  /\ stopPc' = "range"
  /\ stopLeft' = usersByUsername
  /\ UNCHANGED <<disconnects, usersByUsername, usersLock, loginPc, loopVars,
                 startVars, lifeFrame>>

\* One pass of its range: a user without a client is skipped; else
\* user.Client.Disconnect() and close(user.historySyncs).
StopVisit(i) ==
  /\ stopPc = "range"
  /\ i \in stopLeft
  /\ stopLeft' = stopLeft \ {i}
  /\ IF HasClient(i)
     THEN /\ disconnects' = [disconnects EXCEPT ![i] = disconnects[i] + 1]
          /\ session' = [session EXCEPT ![i] = "Disconnected"]
     ELSE UNCHANGED <<disconnects, session>>
  /\ UNCHANGED <<stopPc, usersByUsername, usersLock, loginPc, loopVars,
                 startButSession, lifeFrame>>

StopReturn ==
  /\ stopPc = "range"
  /\ stopLeft = {}
  /\ stopPc' = "returned"
  /\ UNCHANGED <<stopLeft, disconnects, usersByUsername, usersLock, loginPc, loopVars,
                 startVars, lifeFrame>>

Stop == StopBegin \/ (\E i \in 1..MaxUsers : StopVisit(i)) \/ StopReturn

\* A task that adds a user to br.usersByUsername with br.usersLock held. A range
\* over the map that is under way may or may not come to the new entry.
LoginLock ==
  /\ loginPc = "idle"
  /\ usersLock = "free"
  /\ DOMAIN allUsers \ usersByUsername # {}
  /\ usersLock' = "Login"
  /\ loginPc' = "locked"
  /\ UNCHANGED <<usersByUsername, loopVars, stopVars, startVars, lifeFrame>>

LoginInsert(i) ==
  /\ loginPc = "locked"
  /\ i \in DOMAIN allUsers \ usersByUsername
  /\ usersByUsername' = usersByUsername \cup {i}
  /\ stopLeft' \in IF stopPc = "range" THEN {stopLeft, stopLeft \cup {i}} ELSE {stopLeft}
  /\ loginPc' = "inserted"
  /\ UNCHANGED <<stopPc, disconnects, usersLock, loopVars, startVars, lifeFrame>>

LoginUnlock ==
  /\ loginPc = "inserted"
  /\ usersLock' = "free"
  /\ loginPc' = "idle"
  /\ UNCHANGED <<usersByUsername, loopVars, stopVars, startVars, lifeFrame>>

Login == LoginLock \/ (\E i \in 1..MaxUsers : LoginInsert(i)) \/ LoginUnlock

\* The bridge with the users us of which those in registered are in the map,
\* Loop about to begin its first cycle, Stop not called.
LifeInit(us, registered, seen) ==
  /\ usersByUsername = registered
  /\ usersLock = "free"
  /\ loginPc = "idle"
  /\ loopPc = "housekeeping"
  /\ warnLeft = {}
  /\ ticks = 0
  /\ offlineWarningTasks = [i \in DOMAIN us |-> 0]
  /\ warningsSent = [i \in DOMAIN us |-> 0]
  /\ phoneSeen = seen
  /\ stopPc = "none"
  /\ stopLeft = {}
  /\ disconnects = [i \in DOMAIN us |-> 0]

\* The bridge after start-up: every user has a JID and a session that is
\* connected or not.
Running(us, sessions) ==
  /\ allUsers = us
  /\ startPc = "done"
  /\ nextUser = Len(us) + 1
  /\ nextPuppet = Len(AllPuppetsWithCustomMXID) + 1
  /\ foundAnySessions = TRUE
  /\ unconfiguredSent = 0
  /\ connectTask = [i \in DOMAIN us |-> "returned"]
  /\ session = sessions
  /\ puppetTask = [c \in CustomPuppets |-> "started"]

\* ------------------------------ concurrent event callbacks (puppet.go)

\* Event callbacks that call UpdateActivityTs on the same *Puppet, each in its own
\* task; the method takes no lock, so the tasks interleave statement by statement.
MaxCallbacks == 2
Callbacks == 1..MaxCallbacks
SharedPuppet == "p1"

concFrame == <<call, recorded, countVars, startVars, insertVars, lifeVars>>

\* A callback enters UpdateActivityTs(ctx, activityTs).
CbCall(t, activityTs) ==
  /\ cbPc[t] = "idle"
  /\ cbPc' = [cbPc EXCEPT ![t] = "test"]
  /\ cbTs' = [cbTs EXCEPT ![t] = activityTs]
  /\ maxDelivered' = [maxDelivered EXCEPT
                        ![SharedPuppet] = Max(maxDelivered[SharedPuppet], activityTs)]
  /\ UNCHANGED <<activityVars, concFrame>>

\* `if puppet.LastActivityTs > activityTs { return }`
CbTest(t) ==
  /\ cbPc[t] = "test"
  /\ cbPc' = [cbPc EXCEPT ![t] =
               IF SkipUpdate(puppet[SharedPuppet].LastActivityTs, cbTs[t])
               THEN "done" ELSE "assignLast"]
  /\ UNCHANGED <<activityVars, maxDelivered, cbTs, concFrame>>

\* `puppet.LastActivityTs = activityTs`
CbAssignLast(t) ==
  /\ cbPc[t] = "assignLast"
  /\ puppet' = [puppet EXCEPT ![SharedPuppet].LastActivityTs = cbTs[t]]
  /\ cbPc' = [cbPc EXCEPT ![t] = "execLast"]
  /\ UNCHANGED <<db, failedWrites, maxDelivered, cbTs, concFrame>>

\* Exec of the UPDATE of last_activity_ts with puppet.LastActivityTs as it is
\* now; an error is logged.
CbExecLast(t, ok) ==
  /\ cbPc[t] = "execLast"
  /\ failedWrites + (IF ok THEN 0 ELSE 1) <= MaxFailedWrites
  /\ db' = [db EXCEPT ![SharedPuppet] =
              ExecSetLast(db[SharedPuppet], puppet[SharedPuppet].LastActivityTs, ok)]
  /\ failedWrites' = failedWrites + (IF ok THEN 0 ELSE 1)
  /\ cbPc' = [cbPc EXCEPT ![t] = "testFirst"]
  /\ UNCHANGED <<puppet, maxDelivered, cbTs, concFrame>>

\* `if puppet.FirstActivityTs == 0`
CbTestFirst(t) ==
  /\ cbPc[t] = "testFirst"
  /\ cbPc' = [cbPc EXCEPT ![t] =
               IF FirstUnset(puppet[SharedPuppet].FirstActivityTs)
               THEN "assignFirst" ELSE "done"]
  /\ UNCHANGED <<activityVars, maxDelivered, cbTs, concFrame>>

\* `puppet.FirstActivityTs = activityTs`
CbAssignFirst(t) ==
  /\ cbPc[t] = "assignFirst"
  /\ puppet' = [puppet EXCEPT ![SharedPuppet].FirstActivityTs = cbTs[t]]
  /\ cbPc' = [cbPc EXCEPT ![t] = "execFirst"]
  /\ UNCHANGED <<db, failedWrites, maxDelivered, cbTs, concFrame>>

\* Exec of the UPDATE of first_activity_ts with puppet.FirstActivityTs as it is
\* now; an error is logged, and the call returns.
CbExecFirst(t, ok) ==
  /\ cbPc[t] = "execFirst"
  /\ failedWrites + (IF ok THEN 0 ELSE 1) <= MaxFailedWrites
  /\ db' = [db EXCEPT ![SharedPuppet] =
              ExecSetFirst(db[SharedPuppet], puppet[SharedPuppet].FirstActivityTs, ok)]
  /\ failedWrites' = failedWrites + (IF ok THEN 0 ELSE 1)
  /\ cbPc' = [cbPc EXCEPT ![t] = "done"]
  /\ UNCHANGED <<puppet, maxDelivered, cbTs, concFrame>>

\* ------------------------------------------- Insert and Get (puppet.go)

\* types.DefaultUserServer, and the server of a group.
DefaultUserServer == "s.whatsapp.net"
Servers == {DefaultUserServer, "g.us"}
Usernames == {"111", "222"}

\* time.Time: the zero Time (IsZero; 1 January of year 1, on which the code never
\* calls Unix), or a time unix seconds and nsec nanoseconds after 1970.
ZeroTime == [isZero |-> TRUE, unix |-> 0, nsec |-> 0]
TimeUnix(sec, nsec) == [isZero |-> FALSE, unix |-> sec, nsec |-> nsec]
TimeValues == {ZeroTime, TimeUnix(0, 0), TimeUnix(1, 0), TimeUnix(1, 1)}

\* The fields of a *Puppet: the JID, one string and one bool of those that are
\* copied to and from their columns unchanged, and the three times.
PuppetValues ==
  [JID : [User : Usernames, Server : Servers],
   Displayname : {"", "Alice"},
   EnablePresence : BOOLEAN,
   LastSync : TimeValues,
   FirstActivityTs : {0, 1},
   LastActivityTs : {0, 1}]

\* `if puppet.JID.Server != types.DefaultUserServer` of Insert, negated.
\* (Variant without the test.)
MutIsUserAlways(jid) == TRUE
IsUser(jid) == jid.Server = DefaultUserServer

\* lastSyncTS of sqlVariables: 0 for the zero Time, else LastSync.Unix().
LastSyncTS(t) == IF t.isZero THEN 0 ELSE t.unix

\* insertPuppetQuery with sqlVariables(): the columns it names receive the
\* arguments; first_activity_ts and last_activity_ts are not named and stay NULL.
InsertedRow(p) ==
  [username |-> p.JID.User,
   displayname |-> p.Displayname,
   enable_presence |-> p.EnablePresence,
   last_sync |-> SomeInt64(LastSyncTS(p.LastSync)),
   first_activity_ts |-> NullInt64,
   last_activity_ts |-> NullInt64]

\* `if lastSync.Int64 > 0 { puppet.LastSync = time.Unix(lastSync.Int64, 0) }` on
\* a puppet from newPuppet, whose LastSync is the zero Time.
\* (Variant that converts every number.)
MutLastSyncOfAny(lastSync) == TimeUnix(lastSync.Int64, 0)
ScanLastSync(lastSync) ==
  IF lastSync.Int64 > 0 THEN TimeUnix(lastSync.Int64, 0) ELSE ZeroTime

\* Puppet.Scan of a row.
Scan(row) ==
  [JID |-> [User |-> row.username, Server |-> DefaultUserServer],
   Displayname |-> row.displayname,
   EnablePresence |-> row.enable_presence,
   LastSync |-> ScanLastSync(row.last_sync),
   FirstActivityTs |-> row.first_activity_ts.Int64,
   LastActivityTs |-> row.last_activity_ts.Int64]

RowsOf(username) == {row \in table : row.username = username}

\* puppet.Insert(ctx): nothing for a JID that is not a user's; else one Exec,
\* whose error (here: a failing statement, or a row with this username) is
\* returned.
Insert(ok) ==
  /\ insPc = "new"
  /\ insPc' = "inserted"
  /\ IF ~IsUser(subject.JID)
     THEN /\ ok
          /\ execs' = 0
          /\ insertErr' = FALSE
          /\ table' = table
     ELSE /\ execs' = 1
          /\ insertErr' = (~ok \/ RowsOf(subject.JID.User) # {})
          /\ table' = IF insertErr' THEN table
                      ELSE table \cup {InsertedRow(subject)}
  /\ UNCHANGED <<subject, found, activityVars, historyVars, countVars, startVars,
                 concVars, lifeVars>>

\* pq.Get(ctx, subject.JID): QueryOne by jid.User, nil without a row.
Get ==
  /\ insPc = "inserted"
  /\ insPc' = "got"
  /\ found' = IF RowsOf(subject.JID.User) = {} THEN <<>>
              ELSE <<Scan(CHOOSE row \in RowsOf(subject.JID.User) : TRUE)>>
  /\ UNCHANGED <<subject, table, insertErr, execs, activityVars, historyVars,
                 countVars, startVars, concVars, lifeVars>>

\* A puppet p about to be inserted into a table with the rows rows.
InsertInit(p, rows) ==
  /\ insPc = "new"
  /\ subject = p
  /\ table = rows
  /\ insertErr = FALSE
  /\ execs = 0
  /\ found = <<>>

InsertIdle ==
  InsertInit([JID |-> [User |-> "111", Server |-> DefaultUserServer],
              Displayname |-> "", EnablePresence |-> TRUE, LastSync |-> ZeroTime,
              FirstActivityTs |-> 0, LastActivityTs |-> 0], {})

ConcIdle ==
  /\ cbPc = [t \in Callbacks |-> "idle"]
  /\ cbTs = [t \in Callbacks |-> 0]

ExtraIdle == ConcIdle /\ InsertIdle

\* -------------------------------------------------------------- behaviour

NoCall == [p |-> "", activityTs |-> 0, issued |-> {}]

ActivityInit ==
  /\ puppet = [p \in Puppets |-> newPuppet]
  /\ db = [p \in Puppets |-> newRow]
  /\ failedWrites = 0
  /\ call = NoCall
  /\ recorded = {}
  /\ maxDelivered = [p \in Puppets |-> newPuppet.LastActivityTs]
  /\ currentUserCount = 0
  /\ isBlocked = FALSE
  /\ pc = "idle"
  /\ activePuppetCount = 0
  /\ readErr = FALSE
  /\ documented = 0
  /\ prevSnapshot = <<0, FALSE>>

\* StartUsers with the users us, before its first step.
StartInit(us) ==
  /\ allUsers = us
  /\ startPc = "users"
  /\ nextUser = 1
  /\ nextPuppet = 1
  /\ foundAnySessions = FALSE
  /\ unconfiguredSent = 0
  /\ connectTask = [i \in DOMAIN us |-> "none"]
  /\ session = [i \in DOMAIN us |-> "Unconfigured"]
  /\ puppetTask = [c \in CustomPuppets |-> "none"]

\* The activity tracker, in a bridge without users.
Init ==
  /\ ActivityInit
  /\ BlockOnLimitReached \in BOOLEAN
  /\ StartInit(<<>>)
  /\ ExtraIdle
  /\ LifeInit(<<>>, {}, <<>>)

Activity ==
  \E p \in Puppets, activityTs \in TsValues, okLast, okFirst \in BOOLEAN :
    UpdateActivityTs(p, activityTs, okLast, okFirst)

Next == Activity

Spec == Init /\ [][Next]_vars

CountNext == EventCallback \/ UpdateActivePuppetCount

CountSpec == Init /\ [][CountNext]_vars

\* Calls of UpdateActivityTs, and puppets loaded again from the table.
ReloadNext == Activity \/ \E p \in Puppets : Reload(p)

ReloadSpec == Init /\ [][ReloadNext]_vars

\* Event callbacks running UpdateActivityTs on one puppet at the same time.
InitConc == Init /\ BlockOnLimitReached = FALSE

ConcNext ==
  \E t \in Callbacks :
    \/ \E activityTs \in TsValues : CbCall(t, activityTs)
    \/ CbTest(t)
    \/ CbAssignLast(t)
    \/ \E ok \in BOOLEAN : CbExecLast(t, ok)
    \/ CbTestFirst(t)
    \/ CbAssignFirst(t)
    \/ \E ok \in BOOLEAN : CbExecFirst(t, ok)

ConcSpec == InitConc /\ [][ConcNext]_vars

\* A puppet is inserted and read back; the table is empty or holds the row of
\* another puppet of user 111.
InitInsert ==
  /\ ActivityInit
  /\ BlockOnLimitReached = FALSE
  /\ StartInit(<<>>)
  /\ ConcIdle
  /\ LifeInit(<<>>, {}, <<>>)
  /\ \E p \in PuppetValues :
       \E rows \in {{}, {InsertedRow([p EXCEPT !.JID.User = "111",
                                                !.Displayname = "Bob"])}} :
         InsertInit(p, rows)

InsertNext == (\E ok \in BOOLEAN : Insert(ok)) \/ Get

InsertSpec == InitInsert /\ [][InsertNext]_vars

\* The running bridge: Loop, a call of Stop, and a user being added to the map.
InitLoop ==
  /\ ActivityInit
  /\ BlockOnLimitReached = FALSE
  /\ ExtraIdle
  /\ \E n \in 1..MaxLoopUsers :
       \E us \in [1..n -> {[JID |-> SomeJID, handshake |-> "ok"]}],
          sessions \in [1..n -> {"Connected", "Disconnected"}],
          seen \in [1..n -> BOOLEAN],
          registered \in {1..n, 1..(n - 1)} :
         /\ Running(us, sessions)
         /\ LifeInit(us, registered, seen)

LoopNext == Loop \/ Stop \/ Login

LoopSpec == InitLoop /\ [][LoopNext]_vars

\* The running bridge: Loop and the tasks that send the warnings.
InitWarn == InitLoop /\ usersByUsername = DOMAIN allUsers

WarnNext == Loop \/ \E i \in 1..MaxLoopUsers : sendPhoneOfflineWarning(i)

WarnSpec == InitWarn /\ [][WarnNext]_vars

\* Start-up: any users, the puppet table untouched.
InitStart ==
  /\ ActivityInit
  /\ BlockOnLimitReached = FALSE
  /\ \E n \in 0..MaxUsers : \E us \in [1..n -> UserKinds] :
       /\ StartInit(us)
       /\ LifeInit(us, DOMAIN us, [i \in DOMAIN us |-> TRUE])
  /\ ExtraIdle

StartNext ==
  \/ StartUsers
  \/ \E i \in 1..MaxUsers : Connect(i)
  \/ \E c \in CustomPuppets : StartCustomMXID(c)

StartSpec == InitStart /\ [][StartNext]_vars

\* The Go scheduler starves no runnable goroutine. Every task here ends after
\* finitely many steps, so it is enough that some step is taken while one is
\* possible: then every task that can take a step does so in the end.
FairStart == StartSpec /\ WF_vars(StartNext)

\* Start-up with a call of Stop beside it.
StopNext == StartNext \/ Stop

StopSpec == InitStart /\ [][StopNext]_vars

\* ---------------------------------------------------------------- claims

\* C1: over any sequence of UpdateActivityTs calls LastActivityTs never decreases
\* from one call to the next, and after every call it is the largest of its
\* initial value and the timestamps delivered so far.
C1_LastIsMaxDelivered ==
  /\ [](\A p \in Puppets : puppet[p].LastActivityTs = maxDelivered[p])
  /\ [][\A p \in Puppets : puppet'[p].LastActivityTs >= puppet[p].LastActivityTs]_vars

\* An older timestamp (not 0) was delivered after a newer one and did not lower it.
C1_Witness ==
  /\ call.p \in Puppets
  /\ 0 < call.activityTs
  /\ call.activityTs < puppet[call.p].LastActivityTs
  /\ puppet[call.p].LastActivityTs = maxDelivered[call.p]

\* C2 (as claimed): once a call has recorded an activity on a puppet, no later
\* call changes FirstActivityTs, in memory or in the first_activity_ts column.
C2_FirstFixedOnce ==
  [][\A p \in recorded :
       /\ puppet'[p].FirstActivityTs = puppet[p].FirstActivityTs
       /\ db'[p].first_activity_ts = db[p].first_activity_ts]_vars

\* C3 (as claimed): a call whose timestamp is older than or equal to the stored
\* LastActivityTs changes neither field and executes no UPDATE. (Every step of
\* Spec is a call, and call' tells which: its puppet, its timestamp and the
\* UPDATEs it executed.)
C3_OlderOrEqualIsNoOp ==
  [][call'.activityTs <= puppet[call'.p].LastActivityTs
       => (puppet' = puppet /\ db' = db /\ call'.issued = {})]_vars

\* C3 (amended): a call whose timestamp is strictly older than the stored
\* LastActivityTs changes neither field and executes no UPDATE.
C3_OlderIsNoOp ==
  [][call'.activityTs < puppet[call'.p].LastActivityTs
       => (puppet' = puppet /\ db' = db /\ call'.issued = {})]_vars

\* The latest call came with a strictly older timestamp and executed nothing.
C3_Witness ==
  /\ call.p \in Puppets
  /\ call.activityTs < puppet[call.p].LastActivityTs
  /\ call.issued = {}
  /\ db[call.p].last_activity_ts = SomeInt64(puppet[call.p].LastActivityTs)

C5_BlockedIffOverLimit ==
  (pc = "done" /\ BlockOnLimitReached)
    => (isBlocked <=> activePuppetCount > MaxPuppetLimit)

\* A count equal to the limit cleared a block set by the run before.
C5_Witness ==
  /\ pc = "done"
  /\ BlockOnLimitReached
  /\ ~readErr
  /\ activePuppetCount = MaxPuppetLimit
  /\ ~isBlocked
  /\ prevSnapshot = <<MaxPuppetLimit + 1, TRUE>>

\* C6 (as claimed): a run in which a read failed leaves currentUserCount and
\* isBlocked as they were when the run began.
C6_ReadErrorKeepsSnapshot ==
  (pc \in {"failed", "done"} /\ readErr)
    => <<currentUserCount, isBlocked>> = prevSnapshot

\* C7 (as claimed): with BlockOnLimitReached, in every state a reader can
\* observe, isBlocked = (currentUserCount > MaxPuppetLimit).
C7_SnapshotIsAPair ==
  BlockOnLimitReached => (isBlocked <=> currentUserCount > MaxPuppetLimit)

\* C8 (as claimed): for a user whose JID is empty no Connect is ever started, and
\* the user stays Unconfigured.
C8_NoConnectWithoutJID ==
  \A i \in DOMAIN allUsers :
    IsEmpty(allUsers[i].JID)
      => (connectTask[i] = "none" /\ session[i] = "Unconfigured")

\* C8 (amended): StartUsers starts a Connect task for every user its loop has
\* passed, whether or not the JID is empty; a user whose JID is empty stays
\* Unconfigured all the same, because Connect returns without connecting.
C8_ConnectStartedForEveryUser ==
  /\ \A i \in DOMAIN allUsers : i < nextUser => connectTask[i] # "none"
  /\ \A i \in DOMAIN allUsers : IsEmpty(allUsers[i].JID) => session[i] = "Unconfigured"

\* Connect ran and returned for a user without a JID, beside a connected user.
C8_Witness ==
  /\ startPc = "done"
  /\ \E i \in DOMAIN allUsers :
       /\ IsEmpty(allUsers[i].JID)
       /\ connectTask[i] = "returned"
       /\ session[i] = "Unconfigured"
  /\ \E i \in DOMAIN allUsers : session[i] = "Connected"

\* C9: the global Unconfigured state is sent at most once per run of StartUsers,
\* not before the loop over the users has ended, and then exactly if none of
\* the users (there may be none) has a JID.
C9_UnconfiguredIffNoJID ==
  /\ unconfiguredSent <= 1
  /\ startPc = "users" => unconfiguredSent = 0
  /\ startPc # "users" =>
       (unconfiguredSent = 1 <=> \A i \in DOMAIN allUsers : IsEmpty(allUsers[i].JID))

\* Unconfigured was sent for several users, none of which has a JID.
C9_Witness ==
  /\ startPc = "done"
  /\ Len(allUsers) >= 2
  /\ \A i \in DOMAIN allUsers : IsEmpty(allUsers[i].JID)
  /\ unconfiguredSent = 1

\* C10: whatever the other users' handshakes do (fail, or never return),
\* StartUsers ends, every custom puppet's start is attempted and ends, and every
\* user whose handshake succeeds is eventually Connected.
C10_BatchIsolation ==
  <>(/\ startPc = "done"
     /\ \A c \in CustomPuppets : puppetTask[c] \in {"started", "failed"}
     /\ \A i \in DOMAIN allUsers :
          allUsers[i].handshake = "ok" => session[i] = "Connected")

\* One handshake never returned, one failed, and a later user is Connected with
\* the custom puppets started.
C10_Witness ==
  /\ startPc = "done"
  /\ Len(allUsers) = 3
  /\ allUsers[1].handshake = "hang" /\ connectTask[1] = "connecting"
  /\ allUsers[2].handshake = "fail" /\ session[2] = "Disconnected"
  /\ session[3] = "Connected"
  /\ \A c \in CustomPuppets : puppetTask[c] \in {"started", "failed"}

\* C14: a call in which an UPDATE fails still stores the new timestamp in
\* LastActivityTs, and in FirstActivityTs when that was unset, and still executes
\* the UPDATE of first_activity_ts after a failed UPDATE of last_activity_ts: when
\* that one succeeds the column holds the timestamp. (call' tells the call of a
\* step of Spec.)
C14_FailedWriteOnlyLogged ==
  [][failedWrites' > failedWrites =>
       LET p == call'.p
           ts == call'.activityTs
           lastFailed == db'[p].last_activity_ts # SomeInt64(ts)
       IN /\ puppet'[p].LastActivityTs = ts
          /\ puppet[p].FirstActivityTs = 0 =>
               /\ puppet'[p].FirstActivityTs = ts
               /\ "first_activity_ts" \in call'.issued
               /\ (lastFailed /\ failedWrites' = failedWrites + 1
                     /\ ~db[p].first_activity_ts.Valid)
                    => db'[p].first_activity_ts = SomeInt64(ts)]_vars

\* The UPDATE of last_activity_ts failed, and the call stored the timestamp in
\* both fields and in first_activity_ts.
C14_Witness ==
  /\ call.p \in Puppets
  /\ call.activityTs > 0
  /\ failedWrites = 1
  /\ puppet[call.p] = [FirstActivityTs |-> call.activityTs,
                       LastActivityTs |-> call.activityTs]
  /\ ~db[call.p].last_activity_ts.Valid
  /\ db[call.p].first_activity_ts = SomeInt64(call.activityTs)

\* C19 (as claimed): whenever first_activity_ts is set, it is at most
\* last_activity_ts, in memory and in the row (read as Scan reads it), also when
\* writes fail and the puppet is loaded again.
C19_FirstAtMostLast ==
  \A p \in Puppets :
    /\ puppet[p].FirstActivityTs # 0
         => puppet[p].FirstActivityTs <= puppet[p].LastActivityTs
    /\ db[p].first_activity_ts.Valid
         => ScanActivity(db[p]).FirstActivityTs <= ScanActivity(db[p]).LastActivityTs

\* C20 (as claimed): as long as no write has failed, the row of every puppet,
\* read as Scan reads it, gives the puppet's FirstActivityTs and LastActivityTs.
C20_RowMatchesMemory ==
  failedWrites = 0 => \A p \in Puppets : ScanActivity(db[p]) = puppet[p]

\* C17 (as claimed): with callbacks calling UpdateActivityTs on one puppet at the
\* same time, no step lowers LastActivityTs or the last_activity_ts column, and
\* once every call has returned (no write having failed) both hold the largest
\* timestamp delivered.
C17_ConcurrentLastMonotone ==
  [][/\ puppet'[SharedPuppet].LastActivityTs >= puppet[SharedPuppet].LastActivityTs
     /\ ScanActivity(db'[SharedPuppet]).LastActivityTs
          >= ScanActivity(db[SharedPuppet]).LastActivityTs
     /\ ((\A t \in Callbacks : cbPc'[t] = "done") /\ failedWrites' = 0)
          => /\ puppet'[SharedPuppet].LastActivityTs = maxDelivered'[SharedPuppet]
             /\ db'[SharedPuppet].last_activity_ts
                  = SomeInt64(maxDelivered'[SharedPuppet])]_vars

\* C15: Insert of a puppet whose JID is not on the default user server executes
\* no statement, leaves the rows of the table as they are and returns no error;
\* Insert of a puppet of a user executes exactly one statement.
C15_InsertOnlyUsers ==
  [][insPc = "new" =>
       IF subject.JID.Server # DefaultUserServer
       THEN execs' = 0 /\ table' = table /\ ~insertErr'
       ELSE execs' = 1]_vars

\* Insert has returned for a puppet of a group, with a row in the table.
C15_Witness ==
  /\ insPc = "inserted"
  /\ subject.JID.Server = "g.us"
  /\ table # {}
  /\ execs = 0
  /\ ~insertErr

\* C16 (as claimed): for a puppet of a user, a successful Insert followed by Get
\* gives a puppet equal to the inserted one in every field, and a zero LastSync
\* is stored as NULL.
C16_RoundTripEveryField ==
  (insPc = "got" /\ subject.JID.Server = DefaultUserServer /\ ~insertErr) =>
    /\ found = <<subject>>
    /\ subject.LastSync.isZero =>
         \A row \in RowsOf(subject.JID.User) : ~row.last_sync.Valid

\* C16 (amended): for a puppet of a user, a successful Insert followed by Get
\* gives a puppet equal to the inserted one in every field but the three times:
\* LastSync comes back cut to whole seconds, and as the zero Time when it was
\* zero or not after 1970 (a zero LastSync is stored as the number 0);
\* FirstActivityTs and LastActivityTs come back as 0.
C16_RoundTripButTimes ==
  (insPc = "got" /\ subject.JID.Server = DefaultUserServer /\ ~insertErr) =>
    /\ found = <<[subject EXCEPT
                    !.LastSync = IF subject.LastSync.isZero \/ subject.LastSync.unix <= 0
                                 THEN ZeroTime
                                 ELSE TimeUnix(subject.LastSync.unix, 0),
                    !.FirstActivityTs = 0,
                    !.LastActivityTs = 0]>>
    /\ subject.LastSync.isZero =>
         \A row \in RowsOf(subject.JID.User) : row.last_sync = SomeInt64(0)

\* A puppet with a zero LastSync and no activity came back as it was inserted.
C16_Witness ==
  /\ insPc = "got"
  /\ subject.JID.Server = DefaultUserServer
  /\ ~insertErr
  /\ subject.LastSync.isZero
  /\ found = <<subject>>

\* C11 (as claimed): once Stop has been called, Loop begins no further cycle: no
\* housekeeping and no pass of WarnUsersAboutDisconnection begins.
C11_StopEndsLoop ==
  [][stopPc # "none" =>
       /\ ticks' = ticks
       /\ ~(loopPc = "lock" /\ loopPc' = "range")]_vars

\* C12 (as claimed): when Stop returns, every user in the map that has a client
\* has had it disconnected and its historySyncs closed exactly once, also a user
\* whose Connect was under way; a user without a client was left alone.
C12_StopReleasesEveryClient ==
  [][(stopPc = "range" /\ stopPc' = "returned") =>
       \A i \in usersByUsername' :
         disconnects'[i] = IF session'[i] # "Unconfigured" THEN 1 ELSE 0]_vars

C18_MapOnlyUnderLock ==
  /\ loopPc = "range" => usersLock = "Loop"
  /\ stopPc = "range" => usersLock = "Stop"
  /\ ~(stopPc = "range" /\ loginPc = "locked")
  /\ loopPc # "range" => usersLock # "Loop"

====
